---- MODULE Spec2Model ----
(***************************************************************************)
(* Goal engine of athlete-edge: the Goal document (server/models/Goal.js)  *)
(* and the request handlers of server/routes/goals.js, as a state machine  *)
(* over the persisted Goal collection.  Each action is one request handler *)
(* run from its validators to its response, the save included.             *)
(* The module also holds the report routes, the progress update with     *)
(* other requests between its read and its save, and the auth reducer of  *)
(* the client (client/src/contexts/AuthContext.js).                       *)
(***************************************************************************)
EXTENDS Integers, Sequences, FiniteSets, TLC

\* goals: the Goal collection; now: the clock; req, res, doc: the route of
\* the last request, its status code and the document or body it handled;
\* roster: the athletes a report request reads, each with its sport, the
\* Stat records and the goals found for it; inflight: the progress-update
\* requests that have read their goal and not yet saved it; auth: the state
\* of the client's auth reducer; dispatched: the types of the actions
\* dispatched to it so far
VARIABLES goals, now, req, res, doc, roster, inflight, auth, dispatched

vars == <<goals, now, req, res, doc, roster, inflight, auth, dispatched>>

(***************************************************************************)
(* Bounds of the model.                                                    *)
(***************************************************************************)
\* longest progress.updates log explored
MaxUpdates == 2
\* longest coachFeedback list explored
MaxFeedback == 1
\* the clock runs over 0..MaxTime
MaxTime == 1
\* most Stat records a report request finds for one athlete
MaxGames == 2
\* most goals a report request finds for one athlete
MaxGoals == 2
\* most athletes of a team
MaxTeam == 2
\* most actions dispatched to the auth reducer
MaxDispatch == 3

(***************************************************************************)
(* Users, roles and athlete profiles.                                      *)
(***************************************************************************)
NoUser == "anonymous"
Users == {"a1", "k1", "k2", "ad"}
Callers == Users \cup {NoUser}

\* User.role
Role(u) ==
  CASE u \in {"a1"} -> "athlete"
    [] u \in {"k1", "k2"} -> "coach"
    [] OTHER -> "admin"

NoAthlete == "noAthlete"
\* the Athlete collection: p1 is the profile of user a1, p2 of a user who
\* sends no request
Athletes == {"p1", "p2"}

\* Athlete.findOne({ user: id }): the athlete profile of a user
AthleteOfUser(u) == IF u = "a1" THEN "p1" ELSE NoAthlete

\* Athlete.coach: the coach assigned to an athlete profile
AthleteCoach(p) == "k1"

(***************************************************************************)
(* JavaScript numbers.  Finite values are integers; ratios are kept exact  *)
(* as [n, d] with d > 0 until Math.round; NaN and -Infinity are two values *)
(* below every finite number of the model.                                 *)
(***************************************************************************)
NaN == -2000000
NegInfinity == -1000000
IsFinite(x) == x > NegInfinity

\* Math.floor in place of Math.round
RoundDown(n, d) == n \div d

\* Math.round of the ratio n/d, d > 0: nearest integer, halves toward +Infinity
Round(n, d) == (2 * n + d) \div (2 * d)

\* 100 * a / b for b # 0, as a ratio with a positive denominator
Ratio100(a, b) == IF b > 0 THEN [n |-> 100 * a, d |-> b] ELSE [n |-> -100 * a, d |-> -b]

Abs(x) == IF x < 0 THEN -x ELSE x

Directions == {"increase", "decrease", "maintain"}
Statuses == {"active", "completed", "paused", "cancelled", "overdue"}

(***************************************************************************)
(* The Goal document.                                                      *)
(***************************************************************************)
NoGoal == [exists |-> FALSE]
NoDate == -1
NoNotes == "undefined"

\* progress.percentage as updateProgress computes it from targetMetric
\* (Goal.js: the direction formula, then Math.round)
Percentage(currentValue, targetValue, direction) ==
  IF targetValue = 0
  THEN \* division by zero: x/0 is +-Infinity, 0/0 is NaN
       CASE direction = "increase" ->
              IF currentValue > 0 THEN 100
              ELSE IF currentValue = 0 THEN NaN ELSE NegInfinity
         [] direction = "decrease" ->
              IF currentValue < 0 THEN 100
              ELSE IF currentValue = 0 THEN NaN ELSE NegInfinity
         [] OTHER ->
              IF currentValue = 0 THEN NaN ELSE 0
  ELSE CASE direction = "increase" ->
              LET r == Ratio100(currentValue, targetValue)
              IN  IF r.n >= 100 * r.d THEN 100 ELSE Round(r.n, r.d)
         [] direction = "decrease" ->
              LET r == Ratio100(targetValue - currentValue, targetValue)
              IN  IF r.n >= 100 * r.d THEN 100 ELSE Round(r.n, r.d)
         [] OTHER ->
              LET difference == Abs(currentValue - targetValue)
                  r == Ratio100(difference, targetValue)
              IN  IF 100 * r.d - r.n <= 0 THEN 0 ELSE Round(100 * r.d - r.n, r.d)

\* the overdue check made before the completed check
StatusAfterOverdueFirst(g, percentage, t) ==
  LET s1 == IF t > g.targetDate /\ g.status = "active" THEN "overdue" ELSE g.status
  IN  IF percentage >= 100 /\ s1 = "active" THEN "completed" ELSE s1

\* the overdue check with the dates the wrong way round
StatusAfterDatesSwapped(g, percentage, t) ==
  LET s1 == IF percentage >= 100 /\ g.status = "active" THEN "completed" ELSE g.status
  IN  IF g.targetDate > t /\ s1 = "active" THEN "overdue" ELSE s1

\* the completed check without its test of the status
StatusAfterAnyStatus(g, percentage, t) ==
  LET s1 == IF percentage >= 100 THEN "completed" ELSE g.status
  IN  IF t > g.targetDate /\ s1 = "active" THEN "overdue" ELSE s1

\* the overdue check without its test of the status
StatusAfterOverdueAnyStatus(g, percentage, t) ==
  LET s1 == IF percentage >= 100 /\ g.status = "active" THEN "completed" ELSE g.status
  IN  IF t > g.targetDate THEN "overdue" ELSE s1

\* the status and completedAt updateProgress leaves: the completed check,
\* then the overdue check on the status the first check left
StatusAfter(g, percentage, t) ==
  LET s1 == IF percentage >= 100 /\ g.status = "active" THEN "completed" ELSE g.status
  IN  IF t > g.targetDate /\ s1 = "active" THEN "overdue" ELSE s1

\* completedAt recorded without the test of the status
CompletedAtAfterAnyStatus(g, percentage, t) ==
  IF percentage >= 100 THEN t ELSE g.completedAt

CompletedAtAfter(g, percentage, t) ==
  IF percentage >= 100 /\ g.status = "active" THEN t ELSE g.completedAt

\* the percentage computed from the currentValue read before it is assigned
UpdateProgressStale(g, newValue, notes, updatedBy, t) ==
  LET percentage == Percentage(g.targetMetric.currentValue, g.targetMetric.targetValue,
                               g.targetMetric.direction)
      stored == IF percentage = NaN THEN g.progress.percentage ELSE percentage
  IN  [g EXCEPT !.targetMetric.currentValue = newValue,
                !.progress.percentage = stored,
                !.castError = (percentage = NaN),
                !.progress.updates = Append(@, [date |-> t, value |-> newValue,
                                                notes |-> notes,
                                                updatedBy |-> updatedBy]),
                !.status = StatusAfter(g, stored, t),
                !.completedAt = CompletedAtAfter(g, stored, t)]

\* the log entry put first (unshift) instead of last (push)
UpdateProgressUnshift(g, newValue, notes, updatedBy, t) ==
  LET percentage == Percentage(newValue, g.targetMetric.targetValue,
                               g.targetMetric.direction)
      stored == IF percentage = NaN THEN g.progress.percentage ELSE percentage
  IN  [g EXCEPT !.targetMetric.currentValue = newValue,
                !.progress.percentage = stored,
                !.castError = (percentage = NaN),
                !.progress.updates = <<[date |-> t, value |-> newValue,
                                        notes |-> notes,
                                        updatedBy |-> updatedBy]>> \o @,
                !.status = StatusAfter(g, stored, t),
                !.completedAt = CompletedAtAfter(g, stored, t)]

\* goalSchema.methods.updateProgress up to its save: the document as mutated
UpdateProgress(g, newValue, notes, updatedBy, t) ==
  LET percentage == Percentage(newValue, g.targetMetric.targetValue,
                               g.targetMetric.direction)
      \* a NaN is refused by the Number cast: the path keeps its value and
      \* the document is invalidated
      stored == IF percentage = NaN THEN g.progress.percentage ELSE percentage
  IN  [g EXCEPT !.targetMetric.currentValue = newValue,
                !.progress.percentage = stored,
                !.castError = (percentage = NaN),
                !.progress.updates = Append(@, [date |-> t, value |-> newValue,
                                                notes |-> notes,
                                                updatedBy |-> updatedBy]),
                !.status = StatusAfter(g, stored, t),
                !.completedAt = CompletedAtAfter(g, stored, t)]

\* the schema validators save() runs: progress.percentage is a Number
\* with min 0 and max 100, status is one of the enum
Valid(g) ==
  /\ ~g.castError
  /\ IsFinite(g.progress.percentage)
  /\ g.progress.percentage >= 0
  /\ g.progress.percentage <= 100
  /\ g.status \in Statuses

\* every coach taken for an editor
CanEditAnyCoach(u, g) ==
  Role(u) \in {"admin", "coach"}
    \/ \E i \in 1..Len(g.permissions.canEdit) : g.permissions.canEdit[i] = u

\* the canEdit test of the PUT routes
CanEdit(u, g) ==
  Role(u) = "admin" \/ \E i \in 1..Len(g.permissions.canEdit) : g.permissions.canEdit[i] = u

\* the goal's own athlete allowed to delete it
CanDeleteOrAthlete(u, g) ==
  Role(u) = "admin"
    \/ (\E i \in 1..Len(g.permissions.canEdit) : g.permissions.canEdit[i] = u)
    \/ g.createdBy = u
    \/ AthleteOfUser(u) = g.athlete

\* the canDelete test of the DELETE route
CanDelete(u, g) == CanEdit(u, g) \/ g.createdBy = u

(***************************************************************************)
(* Input domains of the requests.                                          *)
(***************************************************************************)
GoalIds == {"g1"}
\* an id no goal ever has
MissingId == "g0"
Ids == GoalIds \cup {MissingId}

Absent == "absent"
\* targetMetric.targetValue of created goals
Targets == {8}
\* values of progress updates and caller-supplied currentValue
Values == {-1, 8}
TargetDates == {0}
\* notes as sent, and after the route's trim()
NotesSent == {" n "}
Trim(n) == IF n = " n " THEN "n" ELSE n

Creators == {"a1", "k1"}
CreateValues == {0, 8}
CreateDirections == {Absent, "decrease"}


NoReq == "none"

Respond(route, u, id, code, d) ==
  /\ req' = route
  /\ res' = code
  /\ doc' = d
  /\ UNCHANGED <<roster, inflight, auth, dispatched>>

Find(id) == IF id \in GoalIds THEN goals[id] ELSE NoGoal

(***************************************************************************)
(* POST /api/goals                                                         *)
(***************************************************************************)
NewGoal(u, athlete, currentValue, targetValue, direction, targetDate) ==
  [exists |-> TRUE,
   athlete |-> athlete,
   createdBy |-> u,
   permissions |-> [canEdit |-> IF Role(u) = "coach" THEN <<u, u>> ELSE <<u>>],
   status |-> "active",
   targetDate |-> targetDate,
   targetMetric |-> [currentValue |-> currentValue,
                     targetValue |-> targetValue,
                     direction |-> IF direction = Absent THEN "increase" ELSE direction],
   progress |-> [percentage |-> 0, updates |-> << >>],
   completedAt |-> NoDate,
   coachFeedback |-> << >>,
   castError |-> FALSE]

\* the athleteId of the body taken for every role
TargetAthleteFromBody(u, athleteId) ==
  IF athleteId \in Athletes THEN athleteId ELSE AthleteOfUser(u)

\* targetAthleteId: the caller's own profile for an athlete, the named
\* athlete for a coach or an admin
TargetAthlete(u, athleteId) ==
  IF Role(u) = "athlete" THEN AthleteOfUser(u) ELSE athleteId

PostGoal(u, id, athleteId, currentValue, targetValue, direction, targetDate, valid) ==
  LET target == TargetAthlete(u, athleteId)
      g == NewGoal(u, target, currentValue, targetValue, direction, targetDate)
  IN
  /\ IF u = NoUser THEN
       Respond("postGoal", u, id, 401, NoGoal) /\ UNCHANGED <<goals, now>>
     ELSE IF ~valid THEN
       Respond("postGoal", u, id, 400, NoGoal) /\ UNCHANGED <<goals, now>>
     ELSE IF Role(u) = "athlete" /\ AthleteOfUser(u) = NoAthlete THEN
       Respond("postGoal", u, id, 404, NoGoal) /\ UNCHANGED <<goals, now>>
     ELSE IF Role(u) # "athlete" /\ athleteId = Absent THEN
       Respond("postGoal", u, id, 400, NoGoal) /\ UNCHANGED <<goals, now>>
     ELSE IF Role(u) # "athlete" /\ athleteId \notin Athletes THEN
       Respond("postGoal", u, id, 404, NoGoal) /\ UNCHANGED <<goals, now>>
     ELSE IF ~Valid(g) THEN
       Respond("postGoal", u, id, 500, g) /\ UNCHANGED <<goals, now>>
     ELSE
       \* the new document gets an id no stored goal has
       /\ goals[id] = NoGoal
       /\ goals' = [goals EXCEPT ![id] = g]
       /\ Respond("postGoal", u, id, 201, g)
       /\ UNCHANGED now

(***************************************************************************)
(* PUT /api/goals/:id                                                      *)
(***************************************************************************)
\* progress.percentage written from the body's currentValue key
ApplyUpdatesWritesProgress(g, body) ==
  [g EXCEPT !.status = IF body.status = Absent THEN @ ELSE body.status,
            !.targetDate = IF body.targetDate = NoDate THEN @ ELSE body.targetDate,
            !.progress.percentage = IF body.currentValueKey = Absent THEN @ ELSE 8]

\* allowedUpdates.forEach: every listed field present in the body is
\* assigned.  'targetMetric.currentValue' is no path setter of the document
\* (goal['targetMetric.currentValue'] = x makes an own property the save
\* ignores), so that key changes nothing stored.
ApplyUpdates(g, body) ==
  [g EXCEPT !.status = IF body.status = Absent THEN @ ELSE body.status,
            !.targetDate = IF body.targetDate = NoDate THEN @ ELSE body.targetDate]

NoBody == [status |-> Absent, targetDate |-> NoDate, currentValueKey |-> Absent,
           athlete |-> Absent]
\* statuses a field edit asks for
EditStatuses == {"active", "completed"}
\* request bodies explored: the empty one, each field alone, status with date
Bodies ==
  {NoBody}
  \cup {[NoBody EXCEPT !.status = s] : s \in EditStatuses}
  \cup {[NoBody EXCEPT !.targetDate = d] : d \in TargetDates}
  \cup {[NoBody EXCEPT !.currentValueKey = "8"]}
  \cup {[NoBody EXCEPT !.status = "active", !.targetDate = d] : d \in TargetDates}

PutGoal(u, id, body, valid) ==
  LET goal == Find(id)
      g == ApplyUpdates(goal, body)
  IN
  /\ UNCHANGED now
  /\ IF u = NoUser THEN
       Respond("putGoal", u, id, 401, NoGoal) /\ UNCHANGED goals
     ELSE IF ~valid THEN
       Respond("putGoal", u, id, 400, NoGoal) /\ UNCHANGED goals
     ELSE IF goal = NoGoal THEN
       Respond("putGoal", u, id, 404, NoGoal) /\ UNCHANGED goals
     ELSE IF ~CanEdit(u, goal) THEN
       Respond("putGoal", u, id, 403, goal) /\ UNCHANGED goals
     ELSE IF ~Valid(g) THEN
       Respond("putGoal", u, id, 500, g) /\ UNCHANGED goals
     ELSE
       /\ goals' = [goals EXCEPT ![id] = g]
       /\ Respond("putGoal", u, id, 200, g)

(***************************************************************************)
(* PUT /api/goals/:id/progress                                             *)
(***************************************************************************)
\* the document kept as mutated when save() refuses it
PutProgressKeepsRejected(u, id, value, notes, valid) ==
  LET goal == Find(id)
      g == UpdateProgress(goal, value, Trim(notes), u, now)
  IN
  /\ UNCHANGED now
  /\ IF u = NoUser THEN
       Respond("putProgress", u, id, 401, NoGoal) /\ UNCHANGED goals
     ELSE IF ~valid THEN
       Respond("putProgress", u, id, 400, NoGoal) /\ UNCHANGED goals
     ELSE IF goal = NoGoal THEN
       Respond("putProgress", u, id, 404, NoGoal) /\ UNCHANGED goals
     ELSE IF ~CanEdit(u, goal) THEN
       Respond("putProgress", u, id, 403, goal) /\ UNCHANGED goals
     ELSE
       /\ Len(goal.progress.updates) < MaxUpdates
       /\ goals' = [goals EXCEPT ![id] = g]
       /\ Respond("putProgress", u, id, IF Valid(g) THEN 200 ELSE 500, g)

PutProgress(u, id, value, notes, valid) ==
  LET goal == Find(id)
      g == UpdateProgress(goal, value, Trim(notes), u, now)
  IN
  /\ UNCHANGED now
  /\ IF u = NoUser THEN
       Respond("putProgress", u, id, 401, NoGoal) /\ UNCHANGED goals
     ELSE IF ~valid THEN
       Respond("putProgress", u, id, 400, NoGoal) /\ UNCHANGED goals
     ELSE IF goal = NoGoal THEN
       Respond("putProgress", u, id, 404, NoGoal) /\ UNCHANGED goals
     ELSE IF ~CanEdit(u, goal) THEN
       Respond("putProgress", u, id, 403, goal) /\ UNCHANGED goals
     ELSE
       \* the log is explored up to MaxUpdates entries
       /\ Len(goal.progress.updates) < MaxUpdates
       /\ IF ~Valid(g) THEN
            Respond("putProgress", u, id, 500, g) /\ UNCHANGED goals
          ELSE
            /\ goals' = [goals EXCEPT ![id] = g]
            /\ Respond("putProgress", u, id, 200, g)

(***************************************************************************)
(* DELETE /api/goals/:id                                                   *)
(***************************************************************************)
DeleteGoal(u, id) ==
  LET goal == Find(id) IN
  /\ UNCHANGED now
  /\ IF u = NoUser THEN
       Respond("deleteGoal", u, id, 401, NoGoal) /\ UNCHANGED goals
     ELSE IF goal = NoGoal THEN
       Respond("deleteGoal", u, id, 404, NoGoal) /\ UNCHANGED goals
     ELSE IF ~CanDelete(u, goal) THEN
       Respond("deleteGoal", u, id, 403, goal) /\ UNCHANGED goals
     ELSE
       /\ goals' = [goals EXCEPT ![id] = NoGoal]
       /\ Respond("deleteGoal", u, id, 200, goal)

(***************************************************************************)
(* POST /api/goals/:id/feedback                                            *)
(***************************************************************************)
\* coachFeedback.push; the entry's date (its default, Date.now) is left out
AddFeedback(g, feedback, rating, coach) ==
  [g EXCEPT !.coachFeedback = Append(@, [feedback |-> feedback,
                                         rating |-> rating, coach |-> coach])]

PostFeedback(u, id, feedback, rating, valid) ==
  LET goal == Find(id)
      g == AddFeedback(goal, feedback, rating, u)
  IN
  /\ UNCHANGED now
  /\ IF u = NoUser THEN
       Respond("postFeedback", u, id, 401, NoGoal) /\ UNCHANGED goals
     ELSE IF Role(u) \notin {"coach", "admin"} THEN
       Respond("postFeedback", u, id, 403, NoGoal) /\ UNCHANGED goals
     ELSE IF ~valid THEN
       Respond("postFeedback", u, id, 400, NoGoal) /\ UNCHANGED goals
     ELSE IF goal = NoGoal THEN
       Respond("postFeedback", u, id, 404, NoGoal) /\ UNCHANGED goals
     ELSE IF Role(u) = "coach" /\ AthleteCoach(goal.athlete) # u THEN
       Respond("postFeedback", u, id, 403, goal) /\ UNCHANGED goals
     ELSE
       \* the feedback list is explored up to MaxFeedback entries
       /\ Len(goal.coachFeedback) < MaxFeedback
       /\ IF ~Valid(g) THEN
            Respond("postFeedback", u, id, 500, g) /\ UNCHANGED goals
          ELSE
            /\ goals' = [goals EXCEPT ![id] = g]
            /\ Respond("postFeedback", u, id, 200, g)

(***************************************************************************)
(* PUT /api/goals/:id/progress with other requests between its await       *)
(* points: the handler reads the goal (await Goal.findById), and the save   *)
(* at the end of updateProgress writes it.  save() sends one update of the  *)
(* stored document holding a $set of each path whose value differs from    *)
(* the value read and a $push of the entries pushed on progress.updates;    *)
(* a push puts no condition on the version of the stored document.         *)
(***************************************************************************)
Requests == {"r1", "r2"}
Idle ==
  [pc |-> "idle", user |-> NoUser, id |-> MissingId, value |-> 0, notes |-> NoNotes,
   goal |-> NoGoal, doc |-> NoGoal, res |-> 0, order |-> 0]
NoInflight == [r \in Requests |-> Idle]

\* save() writing the whole document as it is in memory
SaveWhole(stored, read, g) == g

\* this.save() of a document read as `read` and mutated to g, on the
\* document now stored
Save(stored, read, g) ==
  [stored EXCEPT
     !.targetMetric.currentValue =
        IF g.targetMetric.currentValue # read.targetMetric.currentValue
        THEN g.targetMetric.currentValue ELSE @,
     !.progress.percentage =
        IF g.progress.percentage # read.progress.percentage
        THEN g.progress.percentage ELSE @,
     !.status = IF g.status # read.status THEN g.status ELSE @,
     !.completedAt = IF g.completedAt # read.completedAt THEN g.completedAt ELSE @,
     !.progress.updates =
        @ \o SubSeq(g.progress.updates, Len(read.progress.updates) + 1,
                    Len(g.progress.updates))]

\* the successful writes made so far
Written == {r \in Requests : inflight[r].pc = "done" /\ inflight[r].res = 200}

\* the handler up to the goal it has read and may edit
ReadGoal(r, u, id, value, notes, valid) ==
  LET goal == Find(id)
      code == IF u = NoUser THEN 401
              ELSE IF ~valid THEN 400
              ELSE IF goal = NoGoal THEN 404
              ELSE IF ~CanEdit(u, goal) THEN 403
              ELSE 0
      request == [pc |-> "read", user |-> u, id |-> id, value |-> value,
                  notes |-> Trim(notes), goal |-> goal, doc |-> NoGoal,
                  res |-> 0, order |-> 0]
  IN
  /\ inflight[r].pc = "idle"
  /\ UNCHANGED <<goals, now, roster, auth, dispatched>>
  /\ IF code # 0 THEN
       /\ req' = "putProgress"
       /\ res' = code
       /\ doc' = IF code = 403 THEN goal ELSE NoGoal
       /\ inflight' = [inflight EXCEPT ![r] = [request EXCEPT !.pc = "done",
                                                              !.res = code]]
     ELSE
       /\ inflight' = [inflight EXCEPT ![r] = request]
       /\ UNCHANGED <<req, res, doc>>

\* goal.updateProgress(value, notes, req.user._id) on the goal read, its
\* save and the response
WriteGoal(r) ==
  LET request == inflight[r]
      g == UpdateProgress(request.goal, request.value, request.notes, request.user, now)
  IN
  /\ request.pc = "read"
  /\ UNCHANGED <<now, roster, auth, dispatched>>
  /\ req' = "putProgress"
  /\ IF ~Valid(g) THEN
       /\ res' = 500
       /\ doc' = g
       /\ UNCHANGED goals
       /\ inflight' = [inflight EXCEPT ![r] = [request EXCEPT !.pc = "done",
                                                              !.doc = g,
                                                              !.res = 500]]
     ELSE
       /\ res' = 200
       /\ goals' = [goals EXCEPT ![request.id] = Save(@, request.goal, g)]
       \* the response is the goal read again after the save
       /\ doc' = goals'[request.id]
       /\ inflight' = [inflight EXCEPT ![r] = [request EXCEPT
                                                 !.pc = "done",
                                                 !.doc = g,
                                                 !.res = 200,
                                                 !.order = Cardinality(Written) + 1]]

(***************************************************************************)
(* The client's auth state (client/src/contexts/AuthContext.js).  A user   *)
(* object is a record of its keys, Absent for a key it does not have; null *)
(* is NullUser.                                                            *)
(***************************************************************************)
NullUser == [null |-> TRUE, id |-> Absent, firstName |-> Absent]
NoError == "null"

initialState ==
  [user |-> NullUser, athlete |-> NoAthlete, loading |-> TRUE, error |-> NoError]

\* { ...user, ...payload }: the keys of payload over those of user, the
\* spread of null adding no key
SpreadUser(user, payload) ==
  [null |-> FALSE,
   id |-> IF payload.id # Absent THEN payload.id ELSE user.id,
   firstName |-> IF payload.firstName # Absent THEN payload.firstName ELSE user.firstName]

authReducer(state, action) ==
  CASE action.type = "AUTH_START" ->
         [state EXCEPT !.loading = TRUE, !.error = NoError]
    [] action.type = "AUTH_SUCCESS" ->
         [state EXCEPT !.loading = FALSE,
                       !.user = action.payload.user,
                       !.athlete = action.payload.athlete,
                       !.error = NoError]
    [] action.type = "AUTH_FAILURE" ->
         [state EXCEPT !.loading = FALSE,
                       !.user = NullUser,
                       !.athlete = NoAthlete,
                       !.error = action.payload]
    [] action.type = "LOGOUT" ->
         [state EXCEPT !.user = NullUser,
                       !.athlete = NoAthlete,
                       !.loading = FALSE,
                       !.error = NoError]
    [] action.type = "UPDATE_USER" ->
         [state EXCEPT !.user = SpreadUser(state.user, action.payload)]
    [] OTHER -> state

\* dispatch(action)
Dispatch(action) ==
  /\ auth' = authReducer(auth, action)
  /\ dispatched' = Append(dispatched, action.type)
  /\ UNCHANGED <<goals, now, req, res, doc, roster, inflight>>

\* the users the server answers a login, a registration or getMe with
AuthUsers ==
  {[null |-> FALSE, id |-> "a1", firstName |-> "Ann"],
   [null |-> FALSE, id |-> "k1", firstName |-> "Kim"]}
\* the messages of a failed login or registration
Messages == {"Login failed"}
\* the userData updateUser is called with
UserData == {[id |-> Absent, firstName |-> "Bea"]}

\* the sequences of actions are explored up to MaxDispatch actions
AuthStart ==
  /\ Len(dispatched) < MaxDispatch
  /\ Dispatch([type |-> "AUTH_START"])
\* payload: { user, athlete: user.athleteProfile || null }
AuthSuccess(user) ==
  /\ Len(dispatched) < MaxDispatch
  /\ Dispatch([type |-> "AUTH_SUCCESS",
               payload |-> [user |-> user, athlete |-> AthleteOfUser(user.id)]])
AuthFailure(message) ==
  /\ Len(dispatched) < MaxDispatch
  /\ Dispatch([type |-> "AUTH_FAILURE", payload |-> message])
Logout ==
  /\ Len(dispatched) < MaxDispatch
  /\ Dispatch([type |-> "LOGOUT"])
\* updateUser(userData)
UpdateUser(userData) ==
  /\ Len(dispatched) < MaxDispatch
  /\ Dispatch([type |-> "UPDATE_USER", payload |-> userData])

(***************************************************************************)
(* The clock.                                                              *)
(***************************************************************************)
Tick ==
  /\ now < MaxTime
  /\ now' = now + 1
  /\ UNCHANGED <<goals, req, res, doc, roster, inflight, auth, dispatched>>

(***************************************************************************)
(* The specification.                                                      *)
(***************************************************************************)
Init ==
  /\ goals = [id \in GoalIds |-> NoGoal]
  /\ now = 0
  /\ req = NoReq
  /\ res = 0
  /\ doc = NoGoal
  /\ inflight = NoInflight
  /\ auth = initialState
  /\ dispatched = << >>
  /\ roster = << >>

Next ==
  \/ \E u \in Creators, id \in GoalIds, a \in {"p1", Absent}, cv \in CreateValues,
        tv \in Targets, dir \in CreateDirections, td \in TargetDates :
       PostGoal(u, id, a, cv, tv, dir, td, TRUE)
  \/ \E u \in Users, id \in GoalIds, body \in Bodies : PutGoal(u, id, body, TRUE)
  \/ \E u \in Callers \ {"ad"}, id \in Ids, v \in Values, n \in NotesSent, valid \in BOOLEAN :
       PutProgress(u, id, v, n, valid)
  \/ \E u \in Callers, id \in Ids : DeleteGoal(u, id)
  \/ \E u \in Users \ {"ad"}, id \in GoalIds : PostFeedback(u, id, "f", 5, TRUE)
  \/ Tick

Spec == Init /\ [][Next]_vars

(***************************************************************************)
(* updateProgress on its own: one stored goal, drawn from every direction, *)
(* status and target (negative and zero targets included), updated by its  *)
(* creator with values on both sides of the target.                        *)
(***************************************************************************)
WideTargets == {-8, 0, 8, 50}
WideValues == {-8, -1, 0, 1, 4, 8, 9, 25, 50, 100}

InitProgress ==
  /\ \E tv \in WideTargets, dir \in Directions, s \in Statuses :
       goals = [id \in GoalIds |->
                  [NewGoal("a1", "p1", 0, tv, dir, 0) EXCEPT !.status = s]]
  /\ now \in {0, MaxTime}
  /\ req = NoReq
  /\ res = 0
  /\ doc = NoGoal
  /\ inflight = NoInflight
  /\ auth = initialState
  /\ dispatched = << >>
  /\ roster = << >>

NextProgress ==
  \E id \in GoalIds, v \in WideValues, n \in NotesSent : PutProgress("a1", id, v, n, TRUE)

SpecProgress == InitProgress /\ [][NextProgress]_vars

(***************************************************************************)
(* Ownership: every user creates goals, naming either athlete profile, an  *)
(* id no athlete has, or none; edits may carry an athlete key.             *)
(***************************************************************************)
\* an id no athlete profile has
MissingAthlete == "p0"
OwnerAthleteIds == Athletes \cup {MissingAthlete, Absent}
OwnerBodies ==
  {NoBody, [NoBody EXCEPT !.athlete = "p2"], [NoBody EXCEPT !.status = "completed"]}

NextOwner ==
  \/ \E u \in Users, id \in GoalIds, a \in OwnerAthleteIds :
       PostGoal(u, id, a, 0, 8, Absent, 0, TRUE)
  \/ \E u \in Users, id \in GoalIds, body \in OwnerBodies : PutGoal(u, id, body, TRUE)
  \/ \E u \in Users, id \in GoalIds : PutProgress(u, id, 8, " n ", TRUE)
  \/ \E u \in Users, id \in GoalIds : PostFeedback(u, id, "f", 5, TRUE)
  \/ \E u \in Users, id \in GoalIds : DeleteGoal(u, id)

SpecOwner == Init /\ [][NextOwner]_vars

\* two progress-update requests in flight on a goal that has one earlier
\* log entry
RaceValues == {-1, 1, 4, 8}
InitRace ==
  /\ \E dir \in {"increase", "decrease"} :
       goals = [id \in GoalIds |->
                  UpdateProgress(NewGoal("a1", "p1", 0, 8, dir, 0), 1, "n", "a1", 0)]
  /\ now = 0
  /\ req = NoReq
  /\ res = 0
  /\ doc = NoGoal
  /\ roster = << >>
  /\ inflight = NoInflight
  /\ auth = initialState
  /\ dispatched = << >>

NextRace ==
  \/ \E r \in Requests, u \in {"a1", "ad", "k2"}, id \in Ids, value \in RaceValues,
        notes \in NotesSent, valid \in BOOLEAN :
       ReadGoal(r, u, id, value, notes, valid)
  \/ \E r \in Requests : WriteGoal(r)
  \/ Tick

SpecRace == InitRace /\ [][NextRace]_vars

\* the auth reducer under every sequence of up to MaxDispatch actions
NextAuth ==
  \/ AuthStart
  \/ \E user \in AuthUsers : AuthSuccess(user)
  \/ \E message \in Messages : AuthFailure(message)
  \/ Logout
  \/ \E userData \in UserData : UpdateUser(userData)

SpecAuth == Init /\ [][NextAuth]_vars

(***************************************************************************)
(* Properties.                                                             *)
(***************************************************************************)
\* the last request ran updateProgress: doc is the document it left,
\* saved (200) or refused by the schema validators (500)
Updated == req = "putProgress" /\ res \in {200, 500}

\* a step in which updateProgress runs on the stored goal id
UpdateStep(id) ==
  /\ goals[id] # NoGoal
  /\ req' = "putProgress"
  /\ res' \in {200, 500}
  /\ \E u \in Users, v \in Values \cup WideValues, n \in NotesSent :
       PutProgress(u, id, v, n, TRUE)

\* C1: after updateProgress on a goal with targetValue > 0 the resulting
\* progress.percentage lies in [0,100], for every direction and every
\* newValue.
C1_PercentageInRange ==
  (Updated /\ doc.targetMetric.targetValue > 0)
    => (doc.progress.percentage >= 0 /\ doc.progress.percentage <= 100)

\* C2, as stated, on goals with a nonzero target: for every increase goal,
\* updateProgress with newValue = targetValue yields percentage 100 and
\* status completed.
C2_Original ==
  (/\ Updated
   /\ doc.targetMetric.direction = "increase"
   /\ doc.targetMetric.targetValue # 0
   /\ doc.targetMetric.currentValue = doc.targetMetric.targetValue)
    => (doc.progress.percentage = 100 /\ doc.status = "completed")

\* C2, amended: for every increase goal with targetValue # 0,
\* updateProgress with newValue = targetValue yields percentage 100 and is
\* saved; the status becomes completed when it was active and is left as it
\* was otherwise.
C2_CompletesActiveAtTarget ==
  [][\A id \in GoalIds :
       (/\ UpdateStep(id)
        /\ goals[id].targetMetric.direction = "increase"
        /\ goals[id].targetMetric.targetValue # 0
        /\ doc'.targetMetric.currentValue = goals[id].targetMetric.targetValue)
         => /\ doc'.progress.percentage = 100
            /\ res' = 200
            /\ goals'[id] = doc'
            /\ doc'.status = IF goals[id].status = "active" THEN "completed"
                             ELSE goals[id].status]_vars

C2_Witness ==
  /\ Updated /\ res = 200
  /\ doc.targetMetric.direction = "increase"
  /\ doc.targetMetric.targetValue = 50
  /\ doc.targetMetric.currentValue = 50
  /\ doc.status = "completed"
  /\ doc.completedAt = now

\* the integer p is Math.round of the ratio n/d (d > 0)
IsRounded(p, n, d) == (2 * p - 1) * d <= 2 * n /\ 2 * n < (2 * p + 1) * d

\* the direction formulas of the claim, for t > 0:
\* min(100, v/t*100), min(100, (t-v)/t*100), max(0, 100 - |v-t|/t*100)
IsFormula(p, v, t, direction) ==
  CASE direction = "increase" ->
         IF v >= t THEN p = 100 ELSE IsRounded(p, 100 * v, t)
    [] direction = "decrease" ->
         IF t - v >= t THEN p = 100 ELSE IsRounded(p, 100 * (t - v), t)
    [] OTHER ->
         IF Abs(v - t) >= t THEN p = 0 ELSE IsRounded(p, 100 * (t - Abs(v - t)), t)

\* C3: for targetValue > 0 the percentage updateProgress stores is the
\* rounded direction formula of (newValue, targetValue); decrease with
\* newValue 0 gives 100, maintain with newValue = targetValue gives 100, and
\* increase 25 of 50 gives 50, an active goal not past its date staying
\* active.
C3_PercentageIsFormula ==
  [][\A id \in GoalIds :
       (UpdateStep(id) /\ goals[id].targetMetric.targetValue > 0) =>
         LET t == goals[id].targetMetric.targetValue
             dir == goals[id].targetMetric.direction
             v == doc'.targetMetric.currentValue
             p == doc'.progress.percentage
         IN  /\ IsFormula(p, v, t, dir)
             /\ res' = 200 => goals'[id].progress.percentage = p
             /\ (dir = "decrease" /\ v = 0) => p = 100
             /\ (dir = "maintain" /\ v = t) => p = 100
             /\ (dir = "increase" /\ v = 25 /\ t = 50) =>
                  /\ p = 50
                  /\ res' = 200
                  /\ (goals[id].status = "active" /\ ~(now > goals[id].targetDate))
                       => goals'[id].status = "active"]_vars

C3_Witness ==
  /\ Updated /\ res = 200
  /\ doc.targetMetric.direction = "increase"
  /\ doc.targetMetric.targetValue = 50
  /\ doc.targetMetric.currentValue = 25
  /\ doc.progress.percentage = 50
  /\ doc.status = "active"

\* C4: the completed check comes before the overdue check: an active goal
\* already past its targetDate whose update yields percentage >= 100 is left
\* completed with completedAt recorded, never overdue.
C4_CompletedBeforeOverdue ==
  [][\A id \in GoalIds :
       (/\ UpdateStep(id)
        /\ goals[id].status = "active"
        /\ now > goals[id].targetDate
        /\ doc'.progress.percentage >= 100)
         => /\ doc'.status = "completed"
            /\ doc'.completedAt = now
            /\ goals'[id].status # "overdue"
            /\ res' = 200 => (goals'[id].status = "completed"
                              /\ goals'[id].completedAt = now)]_vars

C4_Witness ==
  /\ Updated /\ res = 200
  /\ now > doc.targetDate
  /\ doc.progress.percentage = 100
  /\ doc.status = "completed"
  /\ doc.completedAt = now
  /\ Len(doc.progress.updates) = 1

\* C5: an active goal past its targetDate whose update leaves the
\* percentage below 100 is left overdue, not completed and not active.
C5_OverdueWhenShort ==
  [][\A id \in GoalIds :
       (/\ UpdateStep(id)
        /\ goals[id].status = "active"
        /\ now > goals[id].targetDate
        /\ doc'.progress.percentage < 100)
         => /\ doc'.status = "overdue"
            /\ doc'.completedAt = goals[id].completedAt
            /\ res' = 200 => goals'[id].status = "overdue"]_vars

C5_Witness ==
  /\ Updated /\ res = 200
  /\ now > doc.targetDate
  /\ doc.progress.percentage = 50
  /\ doc.status = "overdue"
  /\ Len(doc.progress.updates) = 1

\* a step in which a progress update of goal id is saved
SavedUpdate(id) ==
  /\ goals[id] # NoGoal
  /\ req' = "putProgress"
  /\ res' = 200
  /\ \E u \in Users, v \in Values \cup WideValues, n \in NotesSent :
       PutProgress(u, id, v, n, TRUE)

\* C6: the update log is append-only over every sequence of goal
\* operations: a saved updateProgress appends exactly the entry
\* {date, value = newValue, notes, updatedBy = caller} at the end, and no
\* other step of a stored goal changes the log.
C6_LogAppendOnly ==
  [][\A id \in GoalIds :
       (goals[id] # NoGoal /\ goals'[id] # NoGoal) =>
         LET old == goals[id].progress.updates
             new == goals'[id].progress.updates
         IN  IF SavedUpdate(id)
             THEN \E u \in Users, v \in Values \cup WideValues, n \in NotesSent :
                    /\ PutProgress(u, id, v, n, TRUE)
                    /\ new = Append(old, [date |-> now, value |-> v,
                                          notes |-> Trim(n), updatedBy |-> u])
             ELSE new = old]_vars

C6_Witness ==
  \E id \in GoalIds :
    /\ goals[id] # NoGoal
    /\ Len(goals[id].progress.updates) = 2
    /\ goals[id].progress.updates[1].value # goals[id].progress.updates[2].value
    /\ Len(goals[id].coachFeedback) = 1
    /\ req = "putGoal" /\ res = 200

\* C7, as stated: a goal's status changes to completed only in a step where
\* its percentage reaches 100 while its status was active.
C7_Original ==
  [][\A id \in GoalIds :
       (/\ goals[id] # NoGoal /\ goals'[id] # NoGoal
        /\ goals[id].status # "completed"
        /\ goals'[id].status = "completed")
         => /\ SavedUpdate(id)
            /\ goals[id].status = "active"
            /\ goals'[id].progress.percentage = 100]_vars

\* C7, amended: a goal's status changes to completed only in a saved
\* updateProgress whose percentage reaches 100 while the status was active,
\* or in a field edit by a permitted editor whose body sets status to
\* completed; a new goal is never completed.
C7_CompletedOnlyByUpdateOrEdit ==
  [][\A id \in GoalIds :
       /\ (goals[id] = NoGoal /\ goals'[id] # NoGoal) => goals'[id].status = "active"
       /\ (/\ goals[id] # NoGoal /\ goals'[id] # NoGoal
           /\ goals[id].status # "completed"
           /\ goals'[id].status = "completed")
            => \/ /\ SavedUpdate(id)
                  /\ goals[id].status = "active"
                  /\ goals'[id].progress.percentage = 100
               \/ \E u \in Users, body \in Bodies :
                    /\ PutGoal(u, id, body, TRUE)
                    /\ CanEdit(u, goals[id])
                    /\ body.status = "completed"]_vars

C7_Witness ==
  \E id \in GoalIds :
    /\ goals[id] # NoGoal
    /\ req = "putGoal" /\ res = 200
    /\ goals[id].status = "completed"
    /\ goals[id].progress.percentage = 0
    /\ goals[id].completedAt = NoDate

\* C8: progress.percentage is never set to a caller-supplied value: a new
\* goal has percentage 0 whatever currentValue the caller sends, and the
\* percentage of a stored goal changes only in a saved updateProgress, to the
\* direction formula of the goal's targetMetric.
C8_PercentageOnlyByUpdate ==
  [][\A id \in GoalIds :
       /\ (goals[id] = NoGoal /\ goals'[id] # NoGoal)
            => goals'[id].progress.percentage = 0
       /\ (/\ goals[id] # NoGoal /\ goals'[id] # NoGoal
           /\ goals'[id].progress.percentage # goals[id].progress.percentage)
            => /\ SavedUpdate(id)
               /\ goals'[id].targetMetric.targetValue > 0
               /\ IsFormula(goals'[id].progress.percentage,
                            goals'[id].targetMetric.currentValue,
                            goals'[id].targetMetric.targetValue,
                            goals'[id].targetMetric.direction)]_vars

C8_Witness ==
  \E id \in GoalIds :
    /\ goals[id] # NoGoal
    /\ req = "postGoal" /\ res = 201
    /\ goals[id].targetMetric.currentValue = goals[id].targetMetric.targetValue
    /\ goals[id].targetMetric.direction = "increase"
    /\ goals[id].progress.percentage = 0

\* a well-formed field edit, progress update or delete of user u on goal id
EditRequest(u, id) ==
  \/ req' = "putGoal" /\ \E body \in Bodies : PutGoal(u, id, body, TRUE)
  \/ req' = "putProgress"
       /\ \E v \in Values, n \in NotesSent : PutProgress(u, id, v, n, TRUE)
  \/ req' = "deleteGoal" /\ DeleteGoal(u, id)

\* a well-formed feedback request of user u on goal id
FeedbackRequest(u, id) == req' = "postFeedback" /\ PostFeedback(u, id, "f", 5, TRUE)

\* a well-formed request of user u on goal id, on any route
GoalRequest(u, id) == EditRequest(u, id) \/ FeedbackRequest(u, id)

\* u is an admin or one of the goal's permissions.canEdit
IsEditor(u, g) ==
  Role(u) = "admin" \/ u \in {g.permissions.canEdit[i] : i \in 1..Len(g.permissions.canEdit)}

MayGiveFeedback(u, g) ==
  Role(u) = "admin" \/ (Role(u) = "coach" /\ AthleteCoach(g.athlete) = u)

C10_DeleteOnlyByPermitted ==
  [][/\ \A id \in GoalIds :
          goals[id] # NoGoal =>
            /\ goals'[id] = NoGoal =>
                 \E u \in Users :
                   /\ req' = "deleteGoal"
                   /\ res' = 200
                   /\ DeleteGoal(u, id)
                   /\ \/ Role(u) = "admin"
                      \/ \E i \in 1..Len(goals[id].permissions.canEdit) :
                           goals[id].permissions.canEdit[i] = u
                      \/ goals[id].createdBy = u
            /\ \A u \in Users :
                 (/\ req' = "deleteGoal"
                  /\ Role(u) # "admin"
                  /\ \A i \in 1..Len(goals[id].permissions.canEdit) :
                       goals[id].permissions.canEdit[i] # u
                  /\ goals[id].createdBy # u
                  /\ DeleteGoal(u, id))
                   => (res' = 403 /\ goals' = goals)
     /\ \A id \in Ids, u \in Users :
          (req' = "deleteGoal" /\ Find(id) = NoGoal /\ DeleteGoal(u, id))
            => (res' = 404 /\ goals' = goals)]_vars

C10_Witness ==
  \E id \in GoalIds :
    /\ goals[id] # NoGoal
    /\ req = "deleteGoal" /\ res = 403
    /\ doc = goals[id]

(***************************************************************************)
(* Stat documents (server/models/Stat.js) and the analytics helpers of the *)
(* report routes.  A mean is kept exact as the ratio [n, d]; d = 0 is the  *)
(* NaN a division by zero gives.                                           *)
(***************************************************************************)
Sports == {"basketball", "soccer", "football"}

RECURSIVE GCD(_, _)
GCD(a, b) == IF b = 0 THEN a ELSE GCD(b, a % b)

\* the same ratio in lowest terms
Lowest(r) ==
  LET g == GCD(Abs(r.n), r.d)
  IN  IF g = 0 THEN r ELSE [n |-> r.n \div g, d |-> r.d \div g]

RatAdd(a, b) == Lowest([n |-> a.n * b.d + b.n * a.d, d |-> a.d * b.d])
RatEq(a, b) == a.d # 0 /\ b.d # 0 /\ a.n * b.d = b.n * a.d
Whole(x) == [n |-> x, d |-> 1]

RECURSIVE SumInt(_)
\* reduce((sum, x) => sum + x, 0) over numbers
SumInt(s) == IF Len(s) = 0 THEN 0 ELSE Head(s) + SumInt(Tail(s))

RECURSIVE SumRat(_)
\* reduce((sum, x) => sum + x, 0) over ratios
SumRat(s) == IF Len(s) = 0 THEN Whole(0) ELSE RatAdd(Head(s), SumRat(Tail(s)))

\* x || 0 on a number
OrZero(x) == IF x = NaN THEN 0 ELSE x

\* a > b of JavaScript: false when either side is NaN (undefined as a number)
JsGreater(a, b) == a # NaN /\ b # NaN /\ a > b

\* a made/attempted virtual of statSchema: 0 when nothing was attempted
VirtualPercentage(made, attempted) ==
  IF attempted > 0 THEN Lowest([n |-> 100 * made, d |-> attempted]) ELSE Whole(0)

fieldGoalPercentage(stat) ==
  VirtualPercentage(stat.basketball.fieldGoalsMade, stat.basketball.fieldGoalsAttempted)
threePointPercentage(stat) ==
  VirtualPercentage(stat.basketball.threePointersMade, stat.basketball.threePointersAttempted)
freeThrowPercentage(stat) ==
  VirtualPercentage(stat.basketball.freeThrowsMade, stat.basketball.freeThrowsAttempted)
passAccuracy(stat) ==
  VirtualPercentage(stat.soccer.passesCompleted, stat.soccer.passes)

\* a Stat document: the counters the analytics read, the rest at its default
Game(sport, points, fgm, fga, tpm, tpa, ftm, fta, rebounds, assists, goals_, sassists, shots, passes, passesCompleted) ==
  [sport |-> sport,
   basketball |-> [points |-> points, fieldGoalsMade |-> fgm, fieldGoalsAttempted |-> fga,
                   threePointersMade |-> tpm, threePointersAttempted |-> tpa,
                   freeThrowsMade |-> ftm, freeThrowsAttempted |-> fta,
                   rebounds |-> rebounds, assists |-> assists],
   soccer |-> [goals |-> goals_, assists |-> sassists, shots |-> shots,
               passes |-> passes, passesCompleted |-> passesCompleted]]

\* the Stat records explored
StatRecords ==
  {Game("basketball", 20, 8, 16, 1, 4, 0, 0, 5, 3, 0, 0, 0, 0, 0),
   Game("basketball", 30, 10, 20, 2, 4, 4, 4, 7, 4, 0, 0, 0, 0, 0),
   Game("basketball", 4, 1, 4, 0, 0, 2, 4, 1, 0, 0, 0, 0, 0, 0),
   Game("soccer", 0, 0, 0, 0, 0, 0, 0, 0, 0, 2, 1, 4, 20, 10),
   Game("football", 0, 0, 0, 0, 0, 0, 0, 0, 0, 0, 0, 0, 0, 0)}

\* the seed of the bestGame reduce
Sentinel == [basketball |-> [points |-> 0]]

\* best.points: the seed and the Stat documents have no top-level points,
\* so the read gives undefined, NaN in a comparison
TopLevelPoints(best) == IF "points" \in DOMAIN best THEN best.points ELSE NaN

RECURSIVE BestGame(_, _)
\* stats.reduce((best, stat) => stat.basketball.points > best.points ? stat : best, seed)
BestGame(best, stats) ==
  IF Len(stats) = 0 THEN best
  ELSE BestGame(IF JsGreater(Head(stats).basketball.points, TopLevelPoints(best))
                THEN Head(stats) ELSE best,
                Tail(stats))

\* sum / stats.length
Mean(sum, length) == Lowest([n |-> sum.n, d |-> sum.d * length])

points(stat) == OrZero(stat.basketball.points)
rebounds(stat) == OrZero(stat.basketball.rebounds)
assists(stat) == OrZero(stat.basketball.assists)
soccerGoals(stat) == OrZero(stat.soccer.goals)
soccerAssists(stat) == OrZero(stat.soccer.assists)
shots(stat) == OrZero(stat.soccer.shots)

\* calculateAnalytics without its empty-list return
calculateAnalyticsUnguarded(stats, sport) ==
  IF sport = "basketball" THEN
    [totalGames |-> Len(stats),
     averagePoints |-> Mean(Whole(SumInt([i \in 1..Len(stats) |-> points(stats[i])])), Len(stats))]
  ELSE [totalGames |-> Len(stats)]

\* calculateAnalytics with the mean of the totals in place of the mean of
\* the per-record percentages
calculateAnalyticsOfTotals(stats, sport) ==
  LET fgm(stat) == stat.basketball.fieldGoalsMade
      fga(stat) == stat.basketball.fieldGoalsAttempted
  IN
  IF Len(stats) = 0 THEN [totalGames |-> 0]
  ELSE [totalGames |-> Len(stats),
        averagePoints |-> Mean(Whole(SumInt([i \in 1..Len(stats) |-> points(stats[i])])), Len(stats)),
        averageRebounds |-> Mean(Whole(SumInt([i \in 1..Len(stats) |-> rebounds(stats[i])])), Len(stats)),
        averageAssists |-> Mean(Whole(SumInt([i \in 1..Len(stats) |-> assists(stats[i])])), Len(stats)),
        averageFieldGoalPercentage |->
          VirtualPercentage(SumInt([i \in 1..Len(stats) |-> fgm(stats[i])]), SumInt([i \in 1..Len(stats) |-> fga(stats[i])])),
        averageThreePointPercentage |->
          Mean(SumRat([i \in 1..Len(stats) |-> threePointPercentage(stats[i])]), Len(stats)),
        averageFreeThrowPercentage |->
          Mean(SumRat([i \in 1..Len(stats) |-> freeThrowPercentage(stats[i])]), Len(stats)),
        bestGame |-> BestGame(Sentinel, stats),
        averagePassAccuracy |-> Mean(SumRat([i \in 1..Len(stats) |-> passAccuracy(stats[i])]), Len(stats))]

calculateAnalytics(stats, sport) ==
  IF Len(stats) = 0 THEN [totalGames |-> 0]
  ELSE IF sport = "basketball" THEN
    [totalGames |-> Len(stats),
     averagePoints |-> Mean(Whole(SumInt([i \in 1..Len(stats) |-> points(stats[i])])), Len(stats)),
     averageRebounds |-> Mean(Whole(SumInt([i \in 1..Len(stats) |-> rebounds(stats[i])])), Len(stats)),
     averageAssists |-> Mean(Whole(SumInt([i \in 1..Len(stats) |-> assists(stats[i])])), Len(stats)),
     averageFieldGoalPercentage |->
       Mean(SumRat([i \in 1..Len(stats) |-> fieldGoalPercentage(stats[i])]), Len(stats)),
     averageThreePointPercentage |->
       Mean(SumRat([i \in 1..Len(stats) |-> threePointPercentage(stats[i])]), Len(stats)),
     averageFreeThrowPercentage |->
       Mean(SumRat([i \in 1..Len(stats) |-> freeThrowPercentage(stats[i])]), Len(stats)),
     bestGame |-> BestGame(Sentinel, stats)]
  ELSE IF sport = "soccer" THEN
    [totalGames |-> Len(stats),
     totalGoals |-> SumInt([i \in 1..Len(stats) |-> soccerGoals(stats[i])]),
     totalAssists |-> SumInt([i \in 1..Len(stats) |-> soccerAssists(stats[i])]),
     averagePassAccuracy |-> Mean(SumRat([i \in 1..Len(stats) |-> passAccuracy(stats[i])]), Len(stats)),
     averageShots |-> Mean(Whole(SumInt([i \in 1..Len(stats) |-> shots(stats[i])])), Len(stats))]
  ELSE [totalGames |-> Len(stats)]

\* goals.filter(g => g.status === status).length
CountStatus(goalList, status) ==
  Cardinality({i \in 1..Len(goalList) : goalList[i].status = status})

percentageOf(goal) == goal.progress.percentage

calculateGoalProgress(goalList) ==
  IF Len(goalList) = 0
  THEN [averageProgress |-> 0, completedGoals |-> 0, activeGoals |-> 0]
  ELSE [totalGoals |-> Len(goalList),
        activeGoals |-> CountStatus(goalList, "active"),
        completedGoals |-> CountStatus(goalList, "completed"),
        averageProgress |-> Round(SumInt([i \in 1..Len(goalList) |-> percentageOf(goalList[i])]), Len(goalList))]

\* object.field of a number field: undefined (NaN as a number) when missing
NumberField(object, field) == IF field \in DOMAIN object THEN object[field] ELSE NaN

\* object.field || 0 of a mean: 0 when the field is missing, NaN or 0
MeanFieldOrZero(object, field) ==
  IF field \in DOMAIN object /\ object[field].d # 0 THEN object[field] ELSE Whole(0)

\* the empty object {}
EmptyObject == << >>

totalGamesOf(athlete) == athlete.totalGames
averageProgressOf(athlete) == athlete.goals.averageProgress
averagePointsOf(athlete) == MeanFieldOrZero(athlete.analytics, "averagePoints")
averageReboundsOf(athlete) == MeanFieldOrZero(athlete.analytics, "averageRebounds")
averageAssistsOf(athlete) == MeanFieldOrZero(athlete.analytics, "averageAssists")
totalGoalsOf(athlete) == OrZero(NumberField(athlete.analytics, "totalGoals"))
totalAssistsOf(athlete) == OrZero(NumberField(athlete.analytics, "totalAssists"))

\* calculateTeamAverages with the basketball means taken for every sport
calculateTeamAveragesAnySport(athletes, sport) ==
  [totalGames |-> Mean(Whole(SumInt([i \in 1..Len(athletes) |-> totalGamesOf(athletes[i])])), Len(athletes)),
   averageGoalProgress |->
     Mean(Whole(SumInt([i \in 1..Len(athletes) |-> averageProgressOf(athletes[i])])), Len(athletes)),
   averagePoints |-> Mean(SumRat([i \in 1..Len(athletes) |-> averagePointsOf(athletes[i])]), Len(athletes)),
   averageRebounds |-> Mean(SumRat([i \in 1..Len(athletes) |-> averageReboundsOf(athletes[i])]), Len(athletes)),
   averageAssists |-> Mean(SumRat([i \in 1..Len(athletes) |-> averageAssistsOf(athletes[i])]), Len(athletes))]

calculateTeamAverages(athletes, sport) ==
  IF Len(athletes) = 0 THEN EmptyObject
  ELSE IF sport = "basketball" THEN
    [totalGames |-> Mean(Whole(SumInt([i \in 1..Len(athletes) |-> totalGamesOf(athletes[i])])), Len(athletes)),
     averageGoalProgress |->
       Mean(Whole(SumInt([i \in 1..Len(athletes) |-> averageProgressOf(athletes[i])])), Len(athletes)),
     averagePoints |-> Mean(SumRat([i \in 1..Len(athletes) |-> averagePointsOf(athletes[i])]), Len(athletes)),
     averageRebounds |-> Mean(SumRat([i \in 1..Len(athletes) |-> averageReboundsOf(athletes[i])]), Len(athletes)),
     averageAssists |-> Mean(SumRat([i \in 1..Len(athletes) |-> averageAssistsOf(athletes[i])]), Len(athletes))]
  ELSE IF sport = "soccer" THEN
    [totalGames |-> Mean(Whole(SumInt([i \in 1..Len(athletes) |-> totalGamesOf(athletes[i])])), Len(athletes)),
     averageGoalProgress |->
       Mean(Whole(SumInt([i \in 1..Len(athletes) |-> averageProgressOf(athletes[i])])), Len(athletes)),
     totalGoals |-> SumInt([i \in 1..Len(athletes) |-> totalGoalsOf(athletes[i])]),
     totalAssists |-> SumInt([i \in 1..Len(athletes) |-> totalAssistsOf(athletes[i])])]
  ELSE
    [totalGames |-> Mean(Whole(SumInt([i \in 1..Len(athletes) |-> totalGamesOf(athletes[i])])), Len(athletes)),
     averageGoalProgress |->
       Mean(Whole(SumInt([i \in 1..Len(athletes) |-> averageProgressOf(athletes[i])])), Len(athletes))]

(***************************************************************************)
(* generateSummary.  A sentence is its template with the numbers filled    *)
(* in; the summary text is the sequence of sentences with the single       *)
(* spaces join(' ') puts between them, empty for the empty string.         *)
(***************************************************************************)
Sentence(text, args) == [text |-> text, args |-> args]
Space == Sentence(" ", << >>)
PlayedText == "Played {} games in the reporting period."
AveragedText == "Averaged {} points, {} rebounds, and {} assists per game."
ScoredText == "Scored {} goals and provided {} assists."
WorkingText == "Working on {} active goals with {}% average progress."
CompletedText == "Successfully completed {} goals."

\* analytics.field?.toFixed(1) || 0: the mean in tenths, 0 when missing
ToFixed1OrZero(object, field) ==
  IF field \in DOMAIN object /\ object[field].d # 0
  THEN Round(10 * object[field].n, object[field].d) ELSE 0

RECURSIVE Join(_)
\* summary.join(' ')
Join(summary) ==
  IF Len(summary) <= 1 THEN summary
  ELSE <<Head(summary), Space>> \o Join(Tail(summary))

\* generateSummary with a sentence for an athlete without goals
generateSummaryPlaceholder(analytics, goalProgress, sport) ==
  Join(<<Sentence(PlayedText, <<analytics.totalGames>>),
         Sentence(WorkingText, <<goalProgress.activeGoals, goalProgress.averageProgress>>)>>)

generateSummary(analytics, goalProgress, sport) ==
  LET played ==
        IF JsGreater(analytics.totalGames, 0)
        THEN <<Sentence(PlayedText, <<analytics.totalGames>>)>>
             \o (IF sport = "basketball"
                 THEN <<Sentence(AveragedText,
                                 <<ToFixed1OrZero(analytics, "averagePoints"),
                                   ToFixed1OrZero(analytics, "averageRebounds"),
                                   ToFixed1OrZero(analytics, "averageAssists")>>)>>
                 ELSE IF sport = "soccer"
                 THEN <<Sentence(ScoredText,
                                 <<OrZero(NumberField(analytics, "totalGoals")),
                                   OrZero(NumberField(analytics, "totalAssists"))>>)>>
                 ELSE << >>)
        ELSE << >>
      working ==
        IF JsGreater(NumberField(goalProgress, "totalGoals"), 0)
        THEN <<Sentence(WorkingText,
                        <<goalProgress.activeGoals, goalProgress.averageProgress>>)>>
             \o (IF JsGreater(goalProgress.completedGoals, 0)
                 THEN <<Sentence(CompletedText, <<goalProgress.completedGoals>>)>>
                 ELSE << >>)
        ELSE << >>
  IN  Join(played \o working)

(***************************************************************************)
(* The report and analytics requests.  In these the Athlete collection is  *)
(* the roster: p1 is its first entry, p2 its second.                       *)
(***************************************************************************)
AthleteIndex(id) == CASE id = "p1" -> 1 [] id = "p2" -> 2 [] OTHER -> 0

\* Athlete.findById(id) finds a document
AthleteFound(id) == AthleteIndex(id) \in DOMAIN roster

\* Stat.find / Goal.find for an athlete id: nothing for an id without records
StatsOf(id) == IF AthleteFound(id) THEN roster[AthleteIndex(id)].stats ELSE << >>
GoalsOf(id) == IF AthleteFound(id) THEN roster[AthleteIndex(id)].goals ELSE << >>

WithSport(stats, sport) == SelectSeq(stats, LAMBDA stat : stat.sport = sport)
WithStatus(goalList, status) == SelectSeq(goalList, LAMBDA goal : goal.status = status)

\* the clock of the report requests, in months
ReportNow == 12
\* the startDate a report request sends, in months: NoDate when it sends none
StartDates == {NoDate, 6}

\* the start of the reporting period: const start = startDate ?
\* new Date(startDate) : new Date(); start.setMonth(start.getMonth() - months)
PeriodStart(startDate, months) ==
  LET start == IF startDate # NoDate THEN startDate ELSE now
  IN  start - months

\* GET /api/reports/athlete/:id (json format, no endDate); the stats and
\* the goals of the roster are those the queries from start to end find
AthleteReport(u, id, startDate) ==
  LET start == PeriodStart(startDate, 3)
      end == now
      stats == StatsOf(id)
      goalList == GoalsOf(id)
      sport == roster[AthleteIndex(id)].sport
      analytics == calculateAnalytics(stats, sport)
      goalProgress == calculateGoalProgress(goalList)
      reportData ==
        [reportPeriod |-> [startDate |-> start, endDate |-> end],
         stats |-> [totalGames |-> Len(stats), analytics |-> analytics],
         goals |-> [total |-> Len(goalList),
                    active |-> CountStatus(goalList, "active"),
                    completed |-> CountStatus(goalList, "completed"),
                    overdue |-> CountStatus(goalList, "overdue"),
                    progress |-> goalProgress],
         summary |-> generateSummary(analytics, goalProgress, sport)]
  IN
  /\ IF u = NoUser THEN
       Respond("athleteReport", u, id, 401, NoGoal)
     ELSE IF Role(u) = "athlete"
             /\ (~AthleteFound(AthleteOfUser(u)) \/ AthleteOfUser(u) # id) THEN
       Respond("athleteReport", u, id, 403, NoGoal)
     ELSE IF Role(u) # "athlete" /\ ~AthleteFound(id) THEN
       Respond("athleteReport", u, id, 404, NoGoal)
     ELSE
       Respond("athleteReport", u, id, 200, reportData)
  /\ UNCHANGED <<goals, now>>

\* sum / stats.length || 0
MeanOrZero(sum, length) ==
  IF length = 0 \/ sum.n = 0 THEN Whole(0) ELSE Mean(sum, length)

\* the trend entry of one record (its gameDate left out)
TrendEntry(stat) ==
  [points |-> OrZero(stat.basketball.points),
   rebounds |-> OrZero(stat.basketball.rebounds),
   assists |-> OrZero(stat.basketball.assists),
   goals |-> OrZero(stat.soccer.goals),
   passAccuracy |-> passAccuracy(stat)]

\* the analytics object of the performance endpoint
PerformanceAnalyticsOf(stats, sport) ==
  IF sport = "basketball" THEN
    [totalGames |-> Len(stats),
     averagePoints |-> MeanOrZero(Whole(SumInt([i \in 1..Len(stats) |-> points(stats[i])])), Len(stats)),
     averageRebounds |-> MeanOrZero(Whole(SumInt([i \in 1..Len(stats) |-> rebounds(stats[i])])), Len(stats)),
     averageAssists |-> MeanOrZero(Whole(SumInt([i \in 1..Len(stats) |-> assists(stats[i])])), Len(stats)),
     averageFieldGoalPercentage |->
       MeanOrZero(SumRat([i \in 1..Len(stats) |-> fieldGoalPercentage(stats[i])]), Len(stats)),
     averageThreePointPercentage |->
       MeanOrZero(SumRat([i \in 1..Len(stats) |-> threePointPercentage(stats[i])]), Len(stats)),
     averageFreeThrowPercentage |->
       MeanOrZero(SumRat([i \in 1..Len(stats) |-> freeThrowPercentage(stats[i])]), Len(stats)),
     bestGame |-> BestGame(Sentinel, stats),
     trendData |-> [i \in 1..Len(stats) |-> TrendEntry(stats[i])]]
  ELSE IF sport = "soccer" THEN
    [totalGames |-> Len(stats),
     totalGoals |-> SumInt([i \in 1..Len(stats) |-> soccerGoals(stats[i])]),
     totalAssists |-> SumInt([i \in 1..Len(stats) |-> soccerAssists(stats[i])]),
     averagePassAccuracy |-> MeanOrZero(SumRat([i \in 1..Len(stats) |-> passAccuracy(stats[i])]), Len(stats)),
     averageShots |-> MeanOrZero(Whole(SumInt([i \in 1..Len(stats) |-> shots(stats[i])])), Len(stats)),
     trendData |-> [i \in 1..Len(stats) |-> TrendEntry(stats[i])]]
  ELSE [trendData |-> [i \in 1..Len(stats) |-> TrendEntry(stats[i])]]

\* GET /api/stats/analytics/performance
PerformanceAnalytics(u, athleteId, sport) ==
  LET target == IF Role(u) = "athlete" THEN AthleteOfUser(u) ELSE athleteId
      found == StatsOf(target)
      stats == IF sport = Absent THEN found ELSE WithSport(found, sport)
  IN
  /\ IF u = NoUser THEN
       Respond("performanceAnalytics", u, athleteId, 401, NoGoal)
     ELSE IF Role(u) = "athlete" /\ ~AthleteFound(AthleteOfUser(u)) THEN
       Respond("performanceAnalytics", u, athleteId, 404, NoGoal)
     ELSE IF Role(u) # "athlete" /\ athleteId = Absent THEN
       Respond("performanceAnalytics", u, athleteId, 400, NoGoal)
     ELSE
       Respond("performanceAnalytics", u, athleteId, 200,
               [analytics |-> PerformanceAnalyticsOf(stats, sport)])
  /\ UNCHANGED <<goals, now>>

\* the entry of one athlete in a team report
TeamEntry(athlete) ==
  LET goalList == WithStatus(athlete.goals, "active")
  IN  [totalGames |-> Len(athlete.stats),
       analytics |-> calculateAnalytics(athlete.stats, athlete.sport),
       goals |-> [total |-> Len(goalList),
                  averageProgress |-> calculateGoalProgress(goalList).averageProgress]]

TeamName == "t1"

\* the team report without the 404 for a team that has no athletes
TeamReportUnguarded(u, teamId, startDate) ==
  LET athletes == IF teamId = TeamName THEN roster ELSE << >>
      start == PeriodStart(startDate, 1)
      end == now
      entries == [i \in 1..Len(athletes) |-> TeamEntry(athletes[i])]
      sport == IF Len(athletes) = 0 THEN Absent ELSE athletes[1].sport
  IN
  /\ IF u = NoUser THEN
       Respond("teamReport", u, teamId, 401, NoGoal)
     ELSE IF Role(u) \notin {"coach", "admin"} THEN
       Respond("teamReport", u, teamId, 403, NoGoal)
     ELSE
       Respond("teamReport", u, teamId, 200,
               [team |-> [name |-> teamId, athleteCount |-> Len(athletes),
                          sport |-> sport],
                reportPeriod |-> [startDate |-> start, endDate |-> end],
                athletes |-> entries,
                teamAverages |-> calculateTeamAverages(entries, sport)])
  /\ UNCHANGED <<goals, now>>

\* GET /api/reports/team/:teamId (json format, no endDate)
TeamReport(u, teamId, startDate) ==
  LET athletes == IF teamId = TeamName THEN roster ELSE << >>
      start == PeriodStart(startDate, 1)
      end == now
      entries == [i \in 1..Len(athletes) |-> TeamEntry(athletes[i])]
  IN
  /\ IF u = NoUser THEN
       Respond("teamReport", u, teamId, 401, NoGoal)
     ELSE IF Role(u) \notin {"coach", "admin"} THEN
       Respond("teamReport", u, teamId, 403, NoGoal)
     ELSE IF Len(athletes) = 0 THEN
       Respond("teamReport", u, teamId, 404, NoGoal)
     ELSE
       Respond("teamReport", u, teamId, 200,
               [team |-> [name |-> teamId, athleteCount |-> Len(athletes),
                          sport |-> athletes[1].sport],
                reportPeriod |-> [startDate |-> start, endDate |-> end],
                athletes |-> entries,
                teamAverages |-> calculateTeamAverages(entries, athletes[1].sport)])
  /\ UNCHANGED <<goals, now>>

\* the goals a report finds: status and progress.percentage
ReportGoal(status, percentage) ==
  [status |-> status, progress |-> [percentage |-> percentage]]
ReportGoals ==
  {ReportGoal("active", 50), ReportGoal("completed", 100), ReportGoal("overdue", 25)}

\* all sequences over S of length at most n
SeqUpTo(S, n) == UNION {[1..k -> S] : k \in 0..n}

InitReport ==
  /\ goals = [id \in GoalIds |-> NoGoal]
  /\ now = ReportNow
  /\ req = NoReq
  /\ res = 0
  /\ doc = NoGoal
  /\ inflight = NoInflight
  /\ auth = initialState
  /\ dispatched = << >>
  /\ \E sport \in Sports, stats \in SeqUpTo(StatRecords, MaxGames),
        goalList \in SeqUpTo(ReportGoals, MaxGoals) :
       roster = <<[sport |-> sport, stats |-> stats, goals |-> goalList]>>

NextReport ==
  \/ \E u \in {"a1", "k1"}, id \in {"p1", MissingAthlete} : AthleteReport(u, id, NoDate)
  \/ \E u \in {"a1", "k1"}, a \in {"p1", Absent}, sport \in Sports \cup {Absent} :
       PerformanceAnalytics(u, a, sport)

SpecReport == InitReport /\ [][NextReport]_vars

\* the athletes of a team: no games, two basketball games or a soccer
\* game; no goal, an active and a completed goal, or one active goal
TeamAthletes ==
  {[sport |-> sport, stats |-> stats, goals |-> goalList] :
     sport \in Sports,
     stats \in {<< >>,
                <<Game("basketball", 20, 8, 16, 1, 4, 0, 0, 5, 3, 0, 0, 0, 0, 0),
                  Game("basketball", 30, 10, 20, 2, 4, 4, 4, 7, 4, 0, 0, 0, 0, 0)>>,
                <<Game("soccer", 0, 0, 0, 0, 0, 0, 0, 0, 0, 2, 1, 4, 20, 10)>>},
     goalList \in {<< >>,
                   <<ReportGoal("active", 50), ReportGoal("completed", 100)>>,
                   <<ReportGoal("active", 25)>>}}

InitTeam ==
  /\ goals = [id \in GoalIds |-> NoGoal]
  /\ now = ReportNow
  /\ req = NoReq
  /\ res = 0
  /\ doc = NoGoal
  /\ inflight = NoInflight
  /\ auth = initialState
  /\ dispatched = << >>
  /\ roster \in SeqUpTo(TeamAthletes, MaxTeam)

NextTeam ==
  \E u \in {"a1", "k1"}, teamId \in {TeamName, "t0"} : TeamReport(u, teamId, NoDate)

\* the report requests with and without a startDate, on the rosters of
\* SpecTeam: the athlete report is that of the first athlete of the roster
NextPeriod ==
  \/ \E u \in {"a1", "k1"}, startDate \in StartDates : AthleteReport(u, "p1", startDate)
  \/ \E u \in {"a1", "k1"}, startDate \in StartDates : TeamReport(u, TeamName, startDate)

SpecPeriod == InitTeam /\ [][NextPeriod]_vars

SpecTeam == InitTeam /\ [][NextTeam]_vars

\* C11: a goal an athlete creates belongs to the caller's own athlete
\* profile whatever athleteId the body names, a goal a coach or an admin
\* creates belongs to the existing athlete the body names, createdBy is the
\* caller, and no later step of a stored goal changes athlete or createdBy.
C11_OwnerFixed ==
  [][\A id \in GoalIds :
       /\ (goals[id] = NoGoal /\ goals'[id] # NoGoal) =>
            /\ req' = "postGoal" /\ res' = 201
            /\ goals'[id].athlete \in Athletes
            /\ \A u \in Users, a \in OwnerAthleteIds, cv \in CreateValues,
                  dir \in CreateDirections :
                 PostGoal(u, id, a, cv, 8, dir, 0, TRUE) =>
                   /\ goals'[id].createdBy = u
                   /\ Role(u) = "athlete" => goals'[id].athlete = AthleteOfUser(u)
                   /\ Role(u) \in {"coach", "admin"} => goals'[id].athlete = a
       /\ (goals[id] # NoGoal /\ goals'[id] # NoGoal) =>
            /\ goals'[id].athlete = goals[id].athlete
            /\ goals'[id].createdBy = goals[id].createdBy]_vars

C11_Witness ==
  \E id \in GoalIds :
    /\ goals[id] # NoGoal
    /\ goals[id].createdBy = "ad"
    /\ goals[id].athlete = "p2"
    /\ Len(goals[id].progress.updates) = 1
    /\ Len(goals[id].coachFeedback) = 1
    /\ req = "putGoal" /\ res = 200

\* the last request was an athlete report answered with the report
Reported == req = "athleteReport" /\ res = 200

\* the Stat records and goals the report was computed from
ReportStats == roster[1].stats
ReportedGoals == roster[1].goals

\* C12: summarize (calculateAnalytics) on an empty record list returns the
\* summary whose only field is totalGames = 0, for every sport: no mean, so
\* no division, is in it.
C12_EmptySummary ==
  (Reported /\ Len(ReportStats) = 0) =>
     /\ DOMAIN doc.stats.analytics = {"totalGames"}
     /\ doc.stats.analytics.totalGames = 0

C12_Witness ==
  /\ Reported
  /\ Len(ReportStats) = 0
  /\ roster[1].sport = "basketball"
  /\ doc.stats.analytics = [totalGames |-> 0]

\* the records of a list, and the largest basketball points among them
RecordsOf(stats) == {stats[i] : i \in 1..Len(stats)}
MaxPoints(stats) ==
  CHOOSE m \in {st.basketball.points : st \in RecordsOf(stats)} :
    \A st \in RecordsOf(stats) : st.basketball.points <= m

\* C13: for a non-empty list of basketball records bestGame is the record
\* with the maximum points.
C13_BestGameIsMax ==
  (Reported /\ roster[1].sport = "basketball" /\ Len(ReportStats) > 0) =>
     /\ doc.stats.analytics.bestGame \in RecordsOf(ReportStats)
     /\ doc.stats.analytics.bestGame.basketball.points = MaxPoints(ReportStats)

\* C14: bestGame of a basketball summary is never missing: the sentinel
\* {basketball: {points: 0}} when every record has 0 points, one of the
\* input records otherwise.
C14_BestGameSentinelOrRecord ==
  (Reported /\ roster[1].sport = "basketball" /\ Len(ReportStats) > 0) =>
     /\ "bestGame" \in DOMAIN doc.stats.analytics
     /\ IF \A st \in RecordsOf(ReportStats) : st.basketball.points = 0
        THEN doc.stats.analytics.bestGame = Sentinel
        ELSE doc.stats.analytics.bestGame \in RecordsOf(ReportStats)

\* made/attempted as a percentage, 0 when nothing was attempted
PerRecord(made, attempted) ==
  IF attempted = 0 THEN Whole(0) ELSE Lowest([n |-> 100 * made, d |-> attempted])

RECURSIVE SumOver(_, _)
\* the sum of the first k ratios of f
SumOver(f, k) == IF k = 0 THEN Whole(0) ELSE RatAdd(SumOver(f, k - 1), f[k])

\* m is the arithmetic mean of the ratios of the sequence f
IsMeanOf(m, f) ==
  LET total == SumOver(f, Len(f))
  IN  m.d # 0 /\ m.n * total.d * Len(f) = total.n * m.d

\* C15: every averaged percentage field of summarize is the arithmetic mean
\* of the per-record percentages over all records, a record with 0 attempts
\* contributing 0; games 8/16 and 10/20 with 20 and 30 points give
\* averagePoints 25 and averageFieldGoalPercentage 50.
C15_MeanOfPerRecordPercentages ==
  (Reported /\ Len(ReportStats) > 0) =>
     LET a == doc.stats.analytics
         st == ReportStats
         n == Len(st)
     IN  /\ roster[1].sport = "basketball" =>
              /\ IsMeanOf(a.averageFieldGoalPercentage,
                          [i \in 1..n |-> PerRecord(st[i].basketball.fieldGoalsMade,
                                                    st[i].basketball.fieldGoalsAttempted)])
              /\ IsMeanOf(a.averageThreePointPercentage,
                          [i \in 1..n |-> PerRecord(st[i].basketball.threePointersMade,
                                                    st[i].basketball.threePointersAttempted)])
              /\ IsMeanOf(a.averageFreeThrowPercentage,
                          [i \in 1..n |-> PerRecord(st[i].basketball.freeThrowsMade,
                                                    st[i].basketball.freeThrowsAttempted)])
              /\ (/\ n = 2
                  /\ \A i \in 1..2 : st[i].basketball.fieldGoalsAttempted
                                         = 2 * st[i].basketball.fieldGoalsMade
                  /\ st[1].basketball.points = 20 /\ st[2].basketball.points = 30)
                   => /\ RatEq(a.averagePoints, Whole(25))
                      /\ RatEq(a.averageFieldGoalPercentage, Whole(50))
         /\ roster[1].sport = "soccer" =>
              IsMeanOf(a.averagePassAccuracy,
                       [i \in 1..n |-> PerRecord(st[i].soccer.passesCompleted,
                                                 st[i].soccer.passes)])

\* games 8/16 and 1/4: the mean of 50 and 25 is 37.5, the ratio of the
\* totals 9/20 would be 45
C15_Witness ==
  /\ Reported
  /\ roster[1].sport = "basketball"
  /\ Len(ReportStats) = 2
  /\ ReportStats[1].basketball.fieldGoalsAttempted = 16
  /\ ReportStats[2].basketball.fieldGoalsAttempted = 4
  /\ RatEq(doc.stats.analytics.averageFieldGoalPercentage, [n |-> 75, d |-> 2])

\* C16: for a sport other than basketball and soccer the analytics summary
\* has totalGames, the number of records, and no sport-specific field, in
\* the report helper and in the performance-analytics endpoint.
C16_OtherSportTotalGamesOnly ==
  [][/\ (req' = "athleteReport" /\ res' = 200 /\ roster[1].sport = "football") =>
          doc'.stats.analytics = [totalGames |-> Len(ReportStats)]
     /\ \A u \in {"a1", "k1"}, a \in {"p1", Absent} :
          (/\ req' = "performanceAnalytics" /\ res' = 200
           /\ PerformanceAnalytics(u, a, "football"))
            => /\ "totalGames" \in DOMAIN doc'.analytics
               /\ DOMAIN doc'.analytics \subseteq {"totalGames", "trendData"}
               /\ doc'.analytics.totalGames = Len(WithSport(ReportStats, "football"))]_vars

\* the last request was a team report answered with the report
TeamReported == req = "teamReport" /\ res = 200

\* C17: for a non-empty athlete list teamSummarize (calculateTeamAverages)
\* returns totalGames and averageGoalProgress as the means over all
\* athletes whatever the sport, adds for basketball the means of
\* averagePoints, averageRebounds and averageAssists, a missing value
\* counting as 0, adds for soccer the sums of totalGoals and totalAssists,
\* and adds no further field for any other sport.
C17_TeamAverages ==
  TeamReported =>
    LET athletes == doc.athletes
        n == Len(athletes)
        t == doc.teamAverages
        sport == roster[1].sport
        MeanOr0(i, field) ==
          IF field \in DOMAIN athletes[i].analytics THEN athletes[i].analytics[field]
          ELSE Whole(0)
        IntOr0(i, field) ==
          IF field \in DOMAIN athletes[i].analytics THEN athletes[i].analytics[field]
          ELSE 0
    IN  /\ n = Len(roster) /\ n > 0
        /\ IsMeanOf(t.totalGames, [i \in 1..n |-> Whole(Len(roster[i].stats))])
        /\ IsMeanOf(t.averageGoalProgress,
                    [i \in 1..n |-> Whole(athletes[i].goals.averageProgress)])
        /\ sport = "basketball" =>
             /\ DOMAIN t = {"totalGames", "averageGoalProgress", "averagePoints",
                            "averageRebounds", "averageAssists"}
             /\ IsMeanOf(t.averagePoints, [i \in 1..n |-> MeanOr0(i, "averagePoints")])
             /\ IsMeanOf(t.averageRebounds, [i \in 1..n |-> MeanOr0(i, "averageRebounds")])
             /\ IsMeanOf(t.averageAssists, [i \in 1..n |-> MeanOr0(i, "averageAssists")])
        /\ sport = "soccer" =>
             /\ DOMAIN t = {"totalGames", "averageGoalProgress", "totalGoals",
                            "totalAssists"}
             /\ Whole(t.totalGoals)
                  = SumOver([i \in 1..n |-> Whole(IntOr0(i, "totalGoals"))], n)
             /\ Whole(t.totalAssists)
                  = SumOver([i \in 1..n |-> Whole(IntOr0(i, "totalAssists"))], n)
        /\ sport \notin {"basketball", "soccer"} =>
             DOMAIN t = {"totalGames", "averageGoalProgress"}

\* a basketball team of two, the second athlete without a game: the mean
\* of 25 points and a missing value is 12.5
C17_Witness ==
  /\ TeamReported
  /\ Len(roster) = 2
  /\ roster[1].sport = "basketball"
  /\ Len(roster[1].stats) = 2
  /\ Len(roster[2].stats) = 0
  /\ RatEq(doc.teamAverages.averagePoints, [n |-> 25, d |-> 2])
  /\ RatEq(doc.teamAverages.totalGames, Whole(1))

\* C18: goalProgress has the four fields totalGoals, activeGoals,
\* completedGoals and averageProgress for every goal list, the empty one
\* included: the counts of all, active and completed goals and the rounded
\* mean of progress.percentage, 0 for the empty list.
C18_GoalProgressFourFields ==
  Reported =>
    LET gp == doc.goals.progress
        gl == ReportedGoals
        total == SumInt([i \in 1..Len(gl) |-> gl[i].progress.percentage])
    IN  /\ DOMAIN gp = {"totalGoals", "activeGoals", "completedGoals", "averageProgress"}
        /\ gp.totalGoals = Len(gl)
        /\ gp.activeGoals = Cardinality({i \in 1..Len(gl) : gl[i].status = "active"})
        /\ gp.completedGoals = Cardinality({i \in 1..Len(gl) : gl[i].status = "completed"})
        /\ IF Len(gl) = 0 THEN gp.averageProgress = 0
           ELSE IsRounded(gp.averageProgress, total, Len(gl))

\* the summary text has a sentence of the template
HasSentence(summary, text) == \E i \in 1..Len(summary) : summary[i].text = text

\* C19: the summary has the goals-in-progress sentence exactly when
\* totalGoals > 0, the completed-goals sentence exactly when
\* completedGoals > 0 and the games-played sentence exactly when
\* totalGames > 0; sentences are separated by single spaces and nothing
\* stands in for an omitted one: with no game and no goal the summary is
\* the empty string.
C19_SummarySentences ==
  Reported =>
    LET summary == doc.summary
        gl == ReportedGoals
        completed == Cardinality({i \in 1..Len(gl) : gl[i].status = "completed"})
        games == Len(ReportStats)
        sportSentence == games > 0 /\ roster[1].sport \in {"basketball", "soccer"}
        expected == (IF games > 0 THEN 1 ELSE 0) + (IF sportSentence THEN 1 ELSE 0)
                      + (IF Len(gl) > 0 THEN 1 ELSE 0) + (IF completed > 0 THEN 1 ELSE 0)
    IN  /\ HasSentence(summary, WorkingText) <=> Len(gl) > 0
        /\ HasSentence(summary, CompletedText) <=> completed > 0
        /\ HasSentence(summary, PlayedText) <=> games > 0
        /\ Len(summary) = IF expected = 0 THEN 0 ELSE 2 * expected - 1
        /\ \A i \in 1..Len(summary) : (summary[i] = Space) <=> (i % 2 = 0)
        /\ (games = 0 /\ Len(gl) = 0) => summary = << >>

\* no game, one goal in progress and none completed: one sentence only
C19_Witness ==
  /\ Reported
  /\ Len(ReportStats) = 0
  /\ Len(ReportedGoals) = 1
  /\ ReportedGoals[1].status = "active"
  /\ doc.summary = <<Sentence(WorkingText, <<1, 50>>)>>

\* C20: for a goal with targetValue # 0 updateProgress has no error
\* outcome: every newValue is stored as currentValue, logged and persisted.
C20_NoErrorOutcome ==
  (Updated /\ doc.targetMetric.targetValue # 0) =>
     /\ res = 200
     /\ \A id \in GoalIds :
          /\ goals[id] = doc
          /\ Len(goals[id].progress.updates) > 0
          /\ goals[id].progress.updates[Len(goals[id].progress.updates)].value
               = goals[id].targetMetric.currentValue

\* C21: updateProgress on a goal whose targetValue is 0 fails explicitly:
\* the request ends in an error that leaves the persisted goal as it was,
\* and no percentage and no status change computed from a NaN or an
\* Infinity is stored.
C21_ZeroTargetFailsExplicitly ==
  (Updated /\ doc.targetMetric.targetValue = 0) =>
    /\ res = 500
    /\ goals["g1"] # doc

\* C24: updateProgress never changes the status of a goal whose status is
\* not active: a paused, cancelled, completed or overdue goal keeps its
\* status and its completedAt whatever percentage the update computes, in
\* the document the update leaves and in the persisted goal.
C24_InactiveStatusKept ==
  [][\A id \in GoalIds :
       (UpdateStep(id) /\ goals[id].status # "active") =>
         /\ doc'.status = goals[id].status
         /\ doc'.completedAt = goals[id].completedAt
         /\ goals'[id].status = goals[id].status
         /\ goals'[id].completedAt = goals[id].completedAt]_vars

\* an overdue goal whose saved update reached 100% and which stayed overdue
C24_Witness ==
  /\ Updated /\ res = 200
  /\ doc.status = "overdue"
  /\ doc.progress.percentage = 100
  /\ doc.completedAt = NoDate
  /\ goals["g1"] = doc

\* C25, as stated: in every reachable persisted goal state, status =
\* completed implies progress.percentage = 100 and completedAt is set.
C25_Original ==
  \A id \in GoalIds :
    (goals[id] # NoGoal /\ goals[id].status = "completed") =>
      (goals[id].progress.percentage = 100 /\ goals[id].completedAt # NoDate)

\* C25, amended: over every sequence of create, field-edit and
\* progress-update operations, completedAt of a persisted goal changes only
\* in a saved progress update that moves an active goal to completed, and
\* every saved progress update that moves a goal to completed leaves
\* percentage 100 and completedAt set to the time of the update; a newly
\* created goal is not completed and has no completedAt.
C25_CompletedByUpdateAt100 ==
  [][\A id \in GoalIds :
       /\ (goals[id] # NoGoal /\ goals'[id] # NoGoal
              /\ goals'[id].completedAt # goals[id].completedAt) =>
            /\ SavedUpdate(id)
            /\ goals[id].status = "active"
            /\ goals'[id].status = "completed"
            /\ goals'[id].progress.percentage = 100
            /\ goals'[id].completedAt = now
       /\ (goals[id] # NoGoal /\ goals'[id] # NoGoal
              /\ req' = "putProgress"
              /\ goals[id].status # "completed"
              /\ goals'[id].status = "completed") =>
            /\ goals'[id].progress.percentage = 100
            /\ goals'[id].completedAt = now
       /\ (goals[id] = NoGoal /\ goals'[id] # NoGoal) =>
            /\ goals'[id].status # "completed"
            /\ goals'[id].completedAt = NoDate]_vars

\* a goal completed by a progress update made after its target date:
\* percentage 100 and completedAt the time of the update
C25_Witness ==
  /\ req = "putProgress" /\ res = 200
  /\ goals["g1"] # NoGoal
  /\ goals["g1"].status = "completed"
  /\ goals["g1"].progress.percentage = 100
  /\ goals["g1"].completedAt = now
  /\ now > goals["g1"].targetDate

\* C26: in every reachable persisted goal state, progress.percentage
\* equals the rounded direction formula applied to the goal's current
\* targetMetric (currentValue, targetValue, direction), right after
\* creation with a caller-supplied currentValue and after a field edit too.
C26_PersistedPercentageIsFormula ==
  \A id \in GoalIds :
    goals[id] # NoGoal =>
      IsFormula(goals[id].progress.percentage,
                goals[id].targetMetric.currentValue,
                goals[id].targetMetric.targetValue,
                goals[id].targetMetric.direction)

\* C27: a progress-update request that ends in an error (400 validation
\* failure, 404 missing goal, 403 not an editor, 500 because saving the
\* goal is rejected, and 401 without a caller) leaves the persisted goals
\* entirely unchanged: currentValue, percentage, status and the update log
\* are as before the request.
C27_ErrorLeavesGoalUnchanged ==
  [][(req' = "putProgress" /\ res' \in {400, 401, 403, 404, 500}) =>
       goals' = goals]_vars

\* a progress update refused by save(): the document was mutated in memory
\* (new currentValue, one more log entry) and the persisted goal was not
C27_Witness ==
  /\ req = "putProgress" /\ res = 500
  /\ goals["g1"] # NoGoal
  /\ doc.targetMetric.currentValue # goals["g1"].targetMetric.currentValue
  /\ Len(doc.progress.updates) = Len(goals["g1"].progress.updates) + 1
  /\ doc.progress.percentage < 0

\* C28: no team report is ever built from a division by an empty athlete
\* list: the team-report request answers 404 when the team has no athletes,
\* before any average is computed, every report that is built has at least
\* one athlete and means with a nonzero divisor, and calculateTeamAverages
\* itself returns an empty record for an empty list.
C28_NoReportOfEmptyTeam ==
  /\ \A sport \in Sports : calculateTeamAverages(<< >>, sport) = EmptyObject
  /\ (req = "teamReport" /\ Len(roster) = 0) =>
       (res \in {401, 403, 404} /\ doc = NoGoal)
  /\ TeamReported =>
       /\ Len(roster) > 0
       /\ Len(doc.athletes) = Len(roster)
       /\ doc.team.athleteCount = Len(roster)
       /\ doc.teamAverages.totalGames.d # 0
       /\ doc.teamAverages.averageGoalProgress.d # 0

\* a coach asked for the report of a team that has no athletes: 404, no
\* report
C28_Witness ==
  /\ req = "teamReport" /\ res = 404
  /\ Len(roster) = 0
  /\ doc = NoGoal

\* C29: in the athlete and team report requests, when the caller supplies
\* startDate the report period (and with it the record query) starts
\* exactly at that date; the look-back default, 3 months for an athlete
\* report and 1 month for a team report, is applied only when startDate is
\* absent.
C29_PeriodStartsAtStartDate ==
  [][/\ (req' = "athleteReport" /\ res' = 200) =>
          \A startDate \in StartDates :
            (\E u \in {"a1", "k1"} : AthleteReport(u, "p1", startDate)) =>
              doc'.reportPeriod.startDate =
                IF startDate # NoDate THEN startDate ELSE now - 3
     /\ (req' = "teamReport" /\ res' = 200) =>
          \A startDate \in StartDates :
            (\E u \in {"a1", "k1"} : TeamReport(u, TeamName, startDate)) =>
              doc'.reportPeriod.startDate =
                IF startDate # NoDate THEN startDate ELSE now - 1]_vars

\* C30: in every state the auth reducer reaches from its initial state
\* under any sequence of AUTH_START, AUTH_SUCCESS, AUTH_FAILURE, LOGOUT and
\* UPDATE_USER actions, user is non-null only if an AUTH_SUCCESS occurred
\* with no later AUTH_FAILURE or LOGOUT; in particular user is null
\* whenever error is non-null.
C30_UserOnlyAfterSuccess ==
  /\ auth.user # NullUser =>
       \E i \in DOMAIN dispatched :
         /\ dispatched[i] = "AUTH_SUCCESS"
         /\ \A j \in (i + 1)..Len(dispatched) :
              dispatched[j] \notin {"AUTH_FAILURE", "LOGOUT"}
  /\ auth.error # NoError => auth.user = NullUser

\* the log entry a request pushed: the last entry of the document it
\* mutated
EntryOf(r) == inflight[r].doc.progress.updates[Len(inflight[r].doc.progress.updates)]

\* both requests read the goal before either wrote it, and both were saved
Interleaved ==
  /\ Written = Requests
  /\ \A r \in Requests : Len(inflight[r].goal.progress.updates) = 1

\* the request whose write happened last
LastWriter == CHOOSE r \in Written : inflight[r].order = Cardinality(Written)

\* C22: two progress-update requests on the same goal that interleave (both
\* read the goal before either writes) are both accepted without any
\* conflict rejection, and after both complete the persisted
\* targetMetric.currentValue and progress.percentage are those computed by
\* the request whose write happened last.
C22_LastWriteWins ==
  Interleaved =>
    /\ goals["g1"].targetMetric.currentValue
         = inflight[LastWriter].doc.targetMetric.currentValue
    /\ goals["g1"].progress.percentage = inflight[LastWriter].doc.progress.percentage

\* C23: every successful progress update leaves its entry in the persisted
\* update log even under interleaving: the persisted log is the earlier
\* entry followed by the entries of the saved requests in the order of
\* their writes, so after two requests each read the goal and then each
\* wrote it the log holds both entries after the earlier one.
C23_BothEntriesLogged ==
  LET log == goals["g1"].progress.updates
  IN  /\ Len(log) = 1 + Cardinality(Written)
      /\ log[1] = [date |-> 0, value |-> 1, notes |-> "n", updatedBy |-> "a1"]
      /\ \A r \in Written : log[1 + inflight[r].order] = EntryOf(r)

\* two interleaved requests by different callers with different values,
\* both saved: the log holds three entries
C23_Witness ==
  /\ Interleaved
  /\ inflight["r1"].value # inflight["r2"].value
  /\ inflight["r1"].user # inflight["r2"].user
  /\ inflight["r1"].order = 2
  /\ Len(goals["g1"].progress.updates) = 3

====
